---- MODULE Spec2Model ----
(***************************************************************************)
(* A model of the Bosque Jupyter kernel (brakmic/jupyterlab-bosque-kernel): *)
(*   - BosqueKernel (kernel.py): do_execute, _compile_and_execute,          *)
(*     send_error, do_shutdown;                                             *)
(*   - BosqueWrapper (wrapper.py): compile_bosque, find_main_js,            *)
(*     execute_js, compile_and_execute;                                     *)
(*   - BosqueLexer (lexer.py): the token table, run by the RegexLexer       *)
(*     scanning loop it inherits.                                           *)
(* The kernel handles one request at a time; do_execute blocks twice, in    *)
(* subprocess.run for the compiler and for the runtime, and these are the   *)
(* positions pc records.  What the operating system, the two child          *)
(* processes and the message transport answer are inputs of the actions.    *)
(***************************************************************************)
EXTENDS Integers, Sequences, FiniteSets, TLC

VARIABLES
    pc,               \* "idle" | "compiling" | "running" | "terminated"
    cwd,              \* the process working directory: "home" | "scratch"
    silent,           \* the silent flag of the request being handled
    original_cwd,     \* do_execute's local original_cwd
    srcFile,          \* temp_dir/source.bsq exists
    outDir,           \* temp_dir/jsout exists
    jsout,            \* the entries of temp_dir/jsout: name -> "none" | "file" | "dir"
    fresh,            \* the entries of jsout written by this request's compiler
    extra,            \* a file in temp_dir that the kernel did not create exists
    tempExists,       \* temp_dir exists
    sent,             \* the messages this request has sent on iopub, in order
    outcome,          \* how the last do_execute ended
    compilerRunning,  \* the compiler child process is running
    runtimeRunning,   \* the runtime child process is running
    procs,            \* this request's child-process events, in order
    entry,            \* the entry module find_main_js gave this request
    stderrText,       \* the standard error captured from this request's last child
    rmFailed,         \* the removals that failed inside do_shutdown's rmtree
    shutdownRaised,   \* do_shutdown ended with an exception
    text,             \* the lexer's input, a sequence of characters
    pos,              \* the lexer's scan position (1-based; Python's pos + 1)
    statestack,       \* the lexer's state stack
    toks,             \* the tokens yielded so far: <<start, end, kind>>, end exclusive
    scanning          \* get_tokens_unprocessed has not reached the end of the text

kvars == <<pc, cwd, silent, original_cwd, srcFile, outDir, jsout, fresh, extra,
           tempExists, sent, outcome, compilerRunning, runtimeRunning, procs,
           entry, stderrText, rmFailed, shutdownRaised>>
lvars == <<text, pos, statestack, toks, scanning>>
vars == <<kvars, lvars>>

----------------------------------------------------------------------------
(* Bounds of the model.                                                     *)

\* The longest standard-error text a child process writes.
MaxStderr == 2
\* The most removals that fail during one rmtree.
MaxRmFailures == 1
\* The longest source text given to the lexer.
MaxLen == 4
\* The longest source text of the scans of block comments.
MaxCommentLen == 6

----------------------------------------------------------------------------
(* Text helpers: a captured stream is a sequence of one-character strings.  *)

RECURSIVE Join(_)
Join(s) == IF s = <<>> THEN "" ELSE Head(s) \o Join(Tail(s))

Whitespace == {" ", "\t", "\n", "\r", "\f"}

RECURSIVE LStrip(_)
LStrip(s) == IF s # <<>> /\ Head(s) \in Whitespace THEN LStrip(Tail(s)) ELSE s

RECURSIVE RStrip(_)
RStrip(s) ==
    IF s # <<>> /\ s[Len(s)] \in Whitespace THEN RStrip(SubSeq(s, 1, Len(s) - 1)) ELSE s

\* str.strip()
strip(s) == RStrip(LStrip(s))

SeqsUpTo(S, n) == UNION {[1..k -> S] : k \in 0..n}

----------------------------------------------------------------------------
(* BosqueWrapper (wrapper.py).                                              *)

\* The entries a compiler may leave in jsout, each <<stem, extension>>.
Names == {<<"Main", "mjs">>, <<"foo", "mjs">>, <<"bar", "js">>, <<"out", "txt">>}
\* The kinds of entry of each name that the modelled compilers write.
KindsOf(n) == IF n[2] = "mjs" THEN {"file", "dir"} ELSE {"file"}
EmptyDir == [n \in Names |-> "none"]
\* What one compiler run writes into jsout: name -> "none" (untouched) or a kind.
Writes == {W \in [Names -> {"none", "file", "dir"}] :
              \A n \in Names : W[n] \in KindsOf(n) \cup {"none"}}

\* BosqueWrapper.__init__'s default main_js_filename.
main_js_filename == <<"Main", "mjs">>

StderrChars == {" ", "e"}
StderrTexts == SeqsUpTo(StderrChars, MaxStderr)
StdoutTexts == {"", "42\n"}

\* The runs of the compiler: exit code, standard error, the entries written,
\* whether it removes jsout and whether it removes source.bsq.  Standard error
\* is read only after a non-zero exit.
CompilerRuns ==
    {[rc |-> 0, stderr |-> <<>>, W |-> W, rmOut |-> FALSE, rmSrc |-> FALSE] :
        W \in Writes}
    \cup {[rc |-> 0, stderr |-> <<>>, W |-> EmptyDir, rmOut |-> TRUE, rmSrc |-> FALSE]}
    \cup {[rc |-> 1, stderr |-> e, W |-> EmptyDir, rmOut |-> FALSE, rmSrc |-> FALSE] :
             e \in StderrTexts}
    \cup {[rc |-> 1, stderr |-> <<>>, W |-> W, rmOut |-> FALSE, rmSrc |-> FALSE] :
             W \in Writes}
    \cup {[rc |-> c, stderr |-> <<>>, W |-> EmptyDir, rmOut |-> FALSE, rmSrc |-> TRUE] :
             c \in {0, 1}}

\* The runs of the runtime: exit code, standard error, standard output.
RuntimeRuns ==
    {[rc |-> 0, stderr |-> <<>>, stdout |-> o] : o \in StdoutTexts}
    \cup {[rc |-> 1, stderr |-> e, stdout |-> ""] : e \in StderrTexts}

\* A returned value, or a raised exception of class cls with str(e) = msg;
\* cause names the place that raised it.
Ok(v) == [ok |-> TRUE, val |-> v, cls |-> "", msg |-> "", cause |-> ""]
Err(c, m, why) == [ok |-> FALSE, val |-> <<>>, cls |-> c, msg |-> m, cause |-> why]

BosqueExecutionError(m, why) == Err("BosqueExecutionError", m, why)

\* What subprocess.run raises when the executable cannot be started.
SpawnFailure(command) ==
    Err("FileNotFoundError",
        "[Errno 2] No such file or directory: '" \o command \o "'", "spawn")

\* What os.remove raises when source.bsq is not there.
RemoveFailure ==
    Err("FileNotFoundError",
        "[Errno 2] No such file or directory: 'source.bsq'", "remove")

\* compile_bosque with the standard error taken as it is, white space and all
\* (compile_proc.stderr or '...').
compile_bosque_result_unstripped(rc, stderr, isdir) ==
    IF rc # 0
    THEN LET error_msg == IF stderr # <<>> THEN Join(stderr)
                          ELSE "Unknown compilation error."
         IN  BosqueExecutionError("Compilation failed: " \o error_msg, "compile")
    ELSE IF ~isdir
    THEN BosqueExecutionError(
             "Compilation succeeded but output directory 'jsout' was not found.",
             "outdir")
    ELSE Ok(<<"jsout">>)

\* compile_bosque without its check of the compiler's exit code.
compile_bosque_result_unchecked(rc, stderr, isdir) ==
    IF ~isdir
    THEN BosqueExecutionError(
             "Compilation succeeded but output directory 'jsout' was not found.",
             "outdir")
    ELSE Ok(<<"jsout">>)

\* compile_bosque after subprocess.run has returned and source.bsq is removed:
\* the exit code check and the output directory check.
compile_bosque_result(rc, stderr, isdir) ==
    IF rc # 0
    THEN LET error_msg == IF strip(stderr) # <<>> THEN Join(strip(stderr))
                          ELSE "Unknown compilation error."
         IN  BosqueExecutionError("Compilation failed: " \o error_msg, "compile")
    ELSE IF ~isdir
    THEN BosqueExecutionError(
             "Compilation succeeded but output directory 'jsout' was not found.",
             "outdir")
    ELSE Ok(<<"jsout">>)

\* Path(output_dir).glob('*.' + ext): every entry of that name, whatever its kind.
glob(dir, ext) == {n \in Names : dir[n] # "none" /\ n[2] = ext}

\* find_main_js: the results it can give for a directory's content.  A glob lists
\* in the order the file system gives, so js_files[0] is any of the .mjs matches
\* and, without one, any of the .js matches.
find_main_js(dir) ==
    IF dir[main_js_filename] = "file"
    THEN {Ok(main_js_filename)}
    ELSE IF glob(dir, "mjs") # {} THEN {Ok(n) : n \in glob(dir, "mjs")}
    ELSE IF glob(dir, "js") # {} THEN {Ok(n) : n \in glob(dir, "js")}
    ELSE {BosqueExecutionError(
              "Main JavaScript file 'Main.mjs' not found in 'jsout'.", "nomain")}

\* execute_js after subprocess.run has returned.
execute_js_result(rc, stderr, stdout) ==
    IF rc # 0
    THEN LET error_msg == IF strip(stderr) # <<>> THEN Join(strip(stderr))
                          ELSE "Unknown execution error."
         IN  BosqueExecutionError("Execution failed: " \o error_msg, "runtime")
    ELSE Ok(stdout)

----------------------------------------------------------------------------
(* BosqueKernel (kernel.py).                                                *)

\* _compile_and_execute's except clause: any exception becomes a
\* BosqueExecutionError.
wrap_error(e) == BosqueExecutionError("Execution failed: " \o e.msg, e.cause)

\* What send_response raises when the transport fails.
SendFailure == Err("TransportError", "send failed", "send")
\* do_execute's RuntimeError when os.chdir(self.temp_dir) fails.
ChdirFailure == Err("RuntimeError", "Failed to change working directory.", "chdir")

MsgTypes == {"busy", "stream", "idle", "error"}
StatusMsg(st) == [type |-> "status", a |-> st, b |-> ""]
StreamMsg(out) == [type |-> "stream", a |-> "stdout", b |-> out]
\* send_error's error_content.
ErrorMsg(e) == [type |-> "error", a |-> e.cls, b |-> e.msg]

NoOutcome == [kind |-> "none", ename |-> "", evalue |-> "", cause |-> ""]
OkReply == [kind |-> "ok", ename |-> "", evalue |-> "", cause |-> ""]
ErrorReply(e) == [kind |-> "error", ename |-> e.cls, evalue |-> e.msg, cause |-> e.cause]
Raised(e) == [kind |-> "raised", ename |-> e.cls, evalue |-> e.msg, cause |-> e.cause]

NoEntry == [name |-> <<>>, fresh |-> FALSE, kind |-> "none"]

\* do_execute's two except clauses, which differ only in how they name the
\* exception's class: send_error unless silent, then os.chdir(original_cwd),
\* then the error reply.  bad holds the message types whose send raises.
ExceptClause(e, s, sentNow, cwdNow, orig, bad) ==
    /\ pc' = "idle"
    /\ IF ~s /\ "error" \in bad
       THEN /\ sent' = sentNow
            /\ cwd' = cwdNow
            /\ outcome' = Raised(SendFailure)
       ELSE /\ sent' = IF s THEN sentNow ELSE Append(sentNow, ErrorMsg(e))
            /\ cwd' = orig
            /\ outcome' = ErrorReply(e)

\* shutil.rmtree(self.temp_dir) without ignore_errors: the first removal that
\* fails raises and ends the walk.
rmtree_strict(ft, fi) ==
    IF ft = {} /\ fi = {}
    THEN [jsout |-> EmptyDir, outDir |-> FALSE, srcFile |-> FALSE, extra |-> FALSE,
          tempExists |-> FALSE, raised |-> FALSE]
    ELSE [jsout |-> jsout, outDir |-> outDir, srcFile |-> srcFile, extra |-> extra,
          tempExists |-> TRUE, raised |-> TRUE]

\* shutil.rmtree(self.temp_dir, ignore_errors=True): every entry is tried; a
\* directory goes only when it has been emptied.  ft and fi are the entries of
\* temp_dir and of jsout whose own unlink or rmdir fails.
rmtree(ft, fi) ==
    LET inner == [n \in Names |-> IF n \in fi THEN jsout[n] ELSE "none"]
        out == outDir /\ ("jsout" \in ft \/ \E n \in Names : inner[n] # "none")
        src == srcFile /\ "source.bsq" \in ft
        ext == extra /\ "extra" \in ft
    IN  [jsout |-> inner, outDir |-> out, srcFile |-> src, extra |-> ext,
         tempExists |-> (out \/ src \/ ext \/ "temp" \in ft),
         raised |-> FALSE]

\* The entries present in temp_dir (with temp_dir itself) and in jsout.
TopPresent ==
    {"temp"} \cup (IF srcFile THEN {"source.bsq"} ELSE {})
             \cup (IF outDir THEN {"jsout"} ELSE {})
             \cup (IF extra THEN {"extra"} ELSE {})
InnerPresent == {n \in Names : jsout[n] # "none"}

----------------------------------------------------------------------------
(* The state after BosqueKernel.__init__: temp_dir is new and empty.        *)

InitKernel ==
    /\ pc = "idle"
    /\ cwd = "home"
    /\ silent = FALSE
    /\ original_cwd = "home"
    /\ srcFile = FALSE
    /\ outDir = FALSE
    /\ jsout = EmptyDir
    /\ fresh = {}
    /\ extra = FALSE
    /\ tempExists = TRUE
    /\ sent = <<>>
    /\ outcome = NoOutcome
    /\ compilerRunning = FALSE
    /\ runtimeRunning = FALSE
    /\ procs = <<>>
    /\ entry = NoEntry
    /\ stderrText = <<>>
    /\ rmFailed = [top |-> {}, inner |-> {}]
    /\ shutdownRaised = FALSE

LexerIdle ==
    /\ text = <<>>
    /\ pos = 1
    /\ statestack = <<"root">>
    /\ toks = <<>>
    /\ scanning = FALSE

Init == InitKernel /\ LexerIdle

\* do_execute from its entry to the compiler's start (kernel.py 73-89,
\* wrapper.py 37-53): the busy message, getcwd, chdir into temp_dir, the source
\* file, makedirs, subprocess.run.  original_cwd also stands for the directory
\* at entry when the busy message raises before the assignment.
ExecuteRequest(s, bad, chdirOk, spawnOk) ==
    /\ pc = "idle"
    /\ silent' = s
    /\ original_cwd' = cwd
    /\ fresh' = {}
    /\ entry' = NoEntry
    /\ stderrText' = <<>>
    /\ UNCHANGED <<jsout, extra, tempExists, runtimeRunning, rmFailed, shutdownRaised>>
    /\ IF ~s /\ "busy" \in bad
       THEN /\ outcome' = Raised(SendFailure)
            /\ sent' = <<>>
            /\ procs' = <<>>
            /\ UNCHANGED <<pc, cwd, srcFile, outDir, compilerRunning>>
       ELSE LET sent1 == IF s THEN <<>> ELSE <<StatusMsg("busy")>>
            IN  IF ~chdirOk
                THEN /\ ExceptClause(ChdirFailure, s, sent1, cwd, cwd, bad)
                     /\ procs' = <<>>
                     /\ UNCHANGED <<srcFile, outDir, compilerRunning>>
                ELSE /\ srcFile' = TRUE
                     /\ outDir' = TRUE
                     /\ IF ~spawnOk
                        THEN /\ ExceptClause(wrap_error(SpawnFailure("bosque")), s,
                                             sent1, "scratch", cwd, bad)
                             /\ procs' = <<>>
                             /\ UNCHANGED compilerRunning
                        ELSE /\ pc' = "compiling"
                             /\ cwd' = "scratch"
                             /\ sent' = sent1
                             /\ outcome' = NoOutcome
                             /\ compilerRunning' = TRUE
                             /\ procs' = <<"compiler_start">>

\* The compiler, running in temp_dir, leaves a file of its own there.
CompilerWritesExtra ==
    /\ pc = "compiling"
    /\ ~extra
    /\ extra' = TRUE
    /\ UNCHANGED <<pc, cwd, silent, original_cwd, srcFile, outDir, jsout, fresh,
                   tempExists, sent, outcome, compilerRunning, runtimeRunning,
                   procs, entry, stderrText, rmFailed, shutdownRaised>>

\* What a compiler run leaves of jsout: W gives the entries it writes, rmOut
\* says that it removes the directory.
Written(W, rmOut) == IF rmOut THEN {} ELSE {n \in Names : W[n] # "none"}
JsoutAfter(W, rmOut) ==
    IF rmOut THEN EmptyDir
    ELSE [n \in Names |-> IF W[n] # "none" THEN W[n] ELSE jsout[n]]

\* From the compiler's exit to the runtime's start (wrapper.py 55-65, 117-119,
\* 75-84, 95-100), or to do_execute's return when a step fails.
CompilerExit(rc, stderr, W, rmOut, rmSrc, bad, spawnOk) ==
    /\ pc = "compiling"
    /\ compilerRunning' = FALSE
    /\ srcFile' = FALSE
    /\ outDir' = ~rmOut
    /\ jsout' = JsoutAfter(W, rmOut)
    /\ fresh' = Written(W, rmOut)
    /\ stderrText' = stderr
    /\ UNCHANGED <<silent, original_cwd, extra, tempExists, rmFailed, shutdownRaised>>
    /\ LET procs1 == procs \o <<IF rc = 0 THEN "compiler_exit_0"
                                ELSE "compiler_exit_nonzero", "source_removed">>
           output_dir == compile_bosque_result(rc, stderr, ~rmOut)
       IN  IF rmSrc
           THEN /\ ExceptClause(wrap_error(RemoveFailure), silent, sent, cwd,
                                original_cwd, bad)
                /\ procs' = Append(procs, IF rc = 0 THEN "compiler_exit_0"
                                          ELSE "compiler_exit_nonzero")
                /\ UNCHANGED <<runtimeRunning, entry>>
           ELSE IF ~output_dir.ok
           THEN /\ ExceptClause(wrap_error(output_dir), silent, sent, cwd,
                                original_cwd, bad)
                /\ procs' = procs1
                /\ UNCHANGED <<runtimeRunning, entry>>
           ELSE \E main_js \in find_main_js(JsoutAfter(W, rmOut)) :
                  IF ~main_js.ok
                  THEN /\ ExceptClause(wrap_error(main_js), silent, sent, cwd,
                                       original_cwd, bad)
                       /\ procs' = Append(procs1, "output_dir_found")
                       /\ UNCHANGED <<runtimeRunning, entry>>
                  ELSE /\ entry' = [name |-> main_js.val,
                                    fresh |-> main_js.val \in Written(W, rmOut),
                                    kind |-> JsoutAfter(W, rmOut)[main_js.val]]
                       /\ IF ~spawnOk
                          THEN /\ ExceptClause(wrap_error(SpawnFailure("node")),
                                               silent, sent, cwd, original_cwd, bad)
                               /\ procs' = procs1 \o <<"output_dir_found",
                                                        "entry_located">>
                               /\ UNCHANGED runtimeRunning
                          ELSE /\ pc' = "running"
                               /\ runtimeRunning' = TRUE
                               /\ procs' = procs1 \o <<"output_dir_found",
                                                        "entry_located",
                                                        "runtime_start">>
                               /\ UNCHANGED <<cwd, sent, outcome>>

\* From the runtime's exit to do_execute's return (wrapper.py 102-106, 120,
\* kernel.py 90-141).
RuntimeExit(rc, stderr, stdout, bad) ==
    /\ pc = "running"
    /\ runtimeRunning' = FALSE
    /\ procs' = Append(procs, IF rc = 0 THEN "runtime_exit_0"
                              ELSE "runtime_exit_nonzero")
    /\ stderrText' = stderr
    /\ UNCHANGED <<silent, original_cwd, srcFile, outDir, jsout, fresh, extra,
                   tempExists, compilerRunning, entry, rmFailed, shutdownRaised>>
    /\ LET output == execute_js_result(rc, stderr, stdout)
           sent1 == IF silent THEN sent ELSE Append(sent, StreamMsg(output.val))
       IN  IF ~output.ok
           THEN ExceptClause(wrap_error(output), silent, sent, cwd, original_cwd, bad)
           ELSE IF ~silent /\ "stream" \in bad
           THEN ExceptClause(SendFailure, silent, sent, cwd, original_cwd, bad)
           ELSE IF ~silent /\ "idle" \in bad
           THEN ExceptClause(SendFailure, silent, sent1, original_cwd, original_cwd, bad)
           ELSE /\ pc' = "idle"
                /\ cwd' = original_cwd
                /\ sent' = IF silent THEN sent1 ELSE Append(sent1, StatusMsg("idle"))
                /\ outcome' = OkReply

\* do_shutdown (kernel.py 186-196).
Shutdown(ft, fi) ==
    /\ pc = "idle"
    /\ ft \subseteq TopPresent
    /\ fi \subseteq InnerPresent
    /\ Cardinality(ft) + Cardinality(fi) <= MaxRmFailures
    /\ LET r == rmtree(ft, fi)
       IN  /\ jsout' = r.jsout
           /\ outDir' = r.outDir
           /\ srcFile' = r.srcFile
           /\ extra' = r.extra
           /\ tempExists' = r.tempExists
           /\ shutdownRaised' = r.raised
    /\ rmFailed' = [top |-> ft, inner |-> fi]
    /\ pc' = "terminated"
    /\ UNCHANGED <<cwd, silent, original_cwd, fresh, sent, outcome, compilerRunning,
                   runtimeRunning, procs, entry, stderrText>>

Next ==
    \/ \E s \in BOOLEAN, bad \in SUBSET {"busy", "error"}, chdirOk \in BOOLEAN,
          spawnOk \in BOOLEAN :
         ExecuteRequest(s, bad, chdirOk, spawnOk) /\ UNCHANGED lvars
    \/ CompilerWritesExtra /\ UNCHANGED lvars
    \/ \E run \in CompilerRuns, bad \in SUBSET {"error"}, spawnOk \in BOOLEAN :
         CompilerExit(run.rc, run.stderr, run.W, run.rmOut, run.rmSrc, bad, spawnOk)
         /\ UNCHANGED lvars
    \/ \E run \in RuntimeRuns, bad \in SUBSET {"stream", "idle", "error"} :
         RuntimeExit(run.rc, run.stderr, run.stdout, bad) /\ UNCHANGED lvars
    \/ \E ft \in SUBSET {"temp", "source.bsq", "jsout", "extra"}, fi \in SUBSET Names :
         Shutdown(ft, fi) /\ UNCHANGED lvars

Spec == Init /\ [][Next]_vars

----------------------------------------------------------------------------
(* BosqueLexer (lexer.py): the token table, and the scanning loop of        *)
(* RegexLexer.get_tokens_unprocessed that the class inherits.  A text is a  *)
(* sequence of one-character strings; positions are 1-based, so Python's    *)
(* offset o is position o + 1, and a span <<s, e>> holds positions s..e-1.  *)

Lower == {"a", "b", "c", "d", "e", "f", "g", "h", "i", "j", "k", "l", "m", "n",
          "o", "p", "q", "r", "s", "t", "u", "v", "w", "x", "y", "z"}
Upper == {"A", "B", "C", "D", "E", "F", "G", "H", "I", "J", "K", "L", "M", "N",
          "O", "P", "Q", "R", "S", "T", "U", "V", "W", "X", "Y", "Z"}
Digit == {"0", "1", "2", "3", "4", "5", "6", "7", "8", "9"}
\* \w, and [_a-zA-Z0-9]
WordChars == Lower \cup Upper \cup Digit \cup {"_"}
\* [+\-*/=<>!]
OperatorChars == {"+", "-", "*", "/", "=", "<", ">", "!"}
\* [{}()\[\];,]
PunctuationChars == {"{", "}", "(", ")", "[", "]", ";", ","}


CONTROL_KEYWORDS == {
    <<"a", "b", "o", "r", "t">>, <<"a", "s", "s", "e", "r", "t">>, <<"i", "f">>,
    <<"e", "l", "i", "f">>, <<"e", "l", "s", "e">>, <<"f", "n">>,
    <<"p", "r", "e", "d">>, <<"l", "e", "t">>, <<"m", "a", "t", "c", "h">>,
    <<"r", "e", "f">>, <<"r", "e", "t", "u", "r", "n">>,
    <<"s", "w", "i", "t", "c", "h">>, <<"t", "h", "e", "n">>, <<"v", "a", "r">>,
    <<"y", "i", "e", "l", "d">>, <<"e", "n", "s", "u", "r", "e", "s">>,
    <<"i", "n", "v", "a", "r", "i", "a", "n", "t">>,
    <<"e", "x", "a", "m", "p", "l", "e">>, <<"r", "e", "q", "u", "i", "r", "e", "s">>,
    <<"v", "a", "l", "i", "d", "a", "t", "e">>,
    <<"s", "o", "f", "t", "c", "h", "e", "c", "k">>,
    <<"e", "r", "r", "t", "e", "s", "t">>, <<"c", "h", "e", "k", "t", "e", "s", "t">>}

OTHER_KEYWORDS == {
    <<"r", "e", "c", "u", "r", "s", "i", "v", "e">>, <<"a", "c", "t", "i", "o", "n">>,
    <<"_", "d", "e", "b", "u", "g">>, <<"b", "s", "q", "o", "n">>,
    <<"e", "x", "a", "m", "p", "l", "e">>, <<"d", "o">>, <<"f", "a", "i", "l">>,
    <<"i", "m", "p", "l", "e", "m", "e", "n", "t", "s">>, <<"d", "e", "b", "u", "g">>,
    <<"r", "e", "l", "e", "a", "s", "e">>, <<"s", "a", "f", "e", "t", "y">>,
    <<"s", "p", "e", "c">>, <<"t", "e", "s", "t">>, <<"a", "p", "i">>, <<"a", "s">>,
    <<"c", "o", "n", "c", "e", "p", "t">>, <<"c", "o", "n", "s", "t">>,
    <<"d", "e", "c", "l", "a", "r", "e">>, <<"e", "n", "u", "m">>,
    <<"e", "n", "t", "i", "t", "y">>, <<"e", "n", "s", "u", "r", "e", "s">>,
    <<"f", "i", "e", "l", "d">>, <<"f", "u", "n", "c", "t", "i", "o", "n">>,
    <<"i", "n", "v", "a", "r", "i", "a", "n", "t">>, <<"m", "e", "t", "h", "o", "d">>,
    <<"n", "a", "m", "e", "s", "p", "a", "c", "e">>, <<"o", "f">>,
    <<"p", "r", "o", "v", "i", "d", "e", "s">>,
    <<"r", "e", "q", "u", "i", "r", "e", "s">>, <<"i", "n">>, <<"t", "a", "s", "k">>,
    <<"d", "a", "t", "a", "t", "y", "p", "e">>, <<"u", "s", "i", "n", "g">>,
    <<"v", "a", "l", "i", "d", "a", "t", "e">>, <<"w", "h", "e", "n">>,
    <<"e", "v", "e", "n", "t">>, <<"s", "t", "a", "t", "u", "s">>,
    <<"r", "e", "s", "o", "u", "r", "c", "e">>,
    <<"p", "r", "e", "d", "i", "c", "a", "t", "e">>,
    <<"s", "o", "f", "t", "c", "h", "e", "c", "k">>,
    <<"e", "r", "r", "t", "e", "s", "t">>, <<"c", "h", "e", "k", "t", "e", "s", "t">>,
    <<"o", "p", "e", "r", "a", "t", "o", "r">>, <<"v", "a", "r", "i", "a", "n", "t">>}

KEYWORDS == CONTROL_KEYWORDS \cup OTHER_KEYWORDS

\* The alternatives of CONSTANTS_LANGUAGE_REGEX.
CONSTANTS_LANGUAGE == {
    <<"n", "o", "n", "e">>, <<"t", "r", "u", "e">>, <<"f", "a", "l", "s", "e">>,
    <<"f", "a", "i", "l">>, <<"o", "k">>, <<"s", "o", "m", "e">>,
    <<"r", "e", "s", "u", "l", "t">>, <<"o", "p", "t", "i", "o", "n">>,
    <<"e", "n", "v">>, <<"t", "h", "i", "s">>, <<"s", "e", "l", "f">>}

\* The character at position p, "" outside the text.
At(t, p) == IF p \in 1..Len(t) THEN t[p] ELSE ""

\* \b at position p: exactly one of the characters around it is a word character.
Boundary(t, p) == (At(t, p - 1) \in WordChars) # (At(t, p) \in WordChars)

\* The end of the longest run of characters of C that starts at p (p when empty).
RECURSIVE RunEnd(_, _, _)
RunEnd(t, p, C) == IF At(t, p) \in C THEN RunEnd(t, p + 1, C) ELSE p

\* The end of the longest run of characters not in C that starts at p.
RECURSIVE RunEndNot(_, _, _)
RunEndNot(t, p, C) ==
    IF p <= Len(t) /\ t[p] \notin C THEN RunEndNot(t, p + 1, C) ELSE p

\* Each matcher gives the end of its pattern's match at p (the position after
\* the last matched character), or 0 when the pattern does not match at p.

\* A literal character sequence.
Literal(t, p, w) ==
    IF p + Len(w) - 1 <= Len(t) /\ SubSeq(t, p, p + Len(w) - 1) = w
    THEN p + Len(w) ELSE 0

\* \s+
WhitespaceEnd(t, p) == IF At(t, p) \in Whitespace THEN RunEnd(t, p, Whitespace) ELSE 0

\* %%.*$ (re.MULTILINE: $ is the end of the line)
LineCommentEnd(t, p) ==
    IF Literal(t, p, <<"%", "%">>) # 0 THEN RunEndNot(t, p + 2, {"\n"}) ELSE 0

\* \b(w1|w2|...)\b for words made of word characters: the whole word at p is
\* one of them.
WordListEnd(t, p, words) ==
    LET q == RunEnd(t, p, WordChars)
    IN  IF Boundary(t, p) /\ q > p /\ SubSeq(t, p, q - 1) \in words THEN q ELSE 0

\* CONSTANTS_NUMERIC_REGEX, its four alternatives in order.
NumericEnd(t, p) ==
    LET d == RunEnd(t, p, Digit)
        d2 == RunEnd(t, d + 1, Digit)
        s == IF At(t, d2 + 1) \in {"-", "+"} THEN d2 + 2 ELSE d2 + 1
        d3 == RunEnd(t, s, Digit)
    IN  IF ~Boundary(t, p) \/ d = p THEN 0
        ELSE IF At(t, d) \in {"i", "n", "I", "N"} /\ Boundary(t, d + 1) THEN d + 1
        ELSE IF At(t, d) = "R" /\ Boundary(t, d + 1) THEN d + 1
        ELSE IF At(t, d) = "/" /\ d2 > d + 1 /\ At(t, d2) = "R" /\ Boundary(t, d2 + 1)
        THEN d2 + 1
        ELSE IF At(t, d) = "." /\ d2 > d + 1 /\ At(t, d2) \in {"e", "E"}
                /\ d3 > s /\ At(t, d3) \in {"f", "d"} /\ Boundary(t, d3 + 1)
        THEN d3 + 1
        ELSE IF At(t, d) = "." /\ d2 > d + 1 /\ At(t, d2) \in {"f", "d"}
                /\ Boundary(t, d2 + 1)
        THEN d2 + 1
        ELSE IF Boundary(t, d) THEN d
        ELSE 0

\* [A-Z][_a-zA-Z0-9]+
TypeNameEnd(t, p) ==
    IF At(t, p) \in Upper /\ At(t, p + 1) \in WordChars
    THEN RunEnd(t, p + 1, WordChars) ELSE 0

\* (([A-Z][_a-zA-Z0-9]+)::)*([A-Z][_a-zA-Z0-9]+)
RECURSIVE QualifiedEnd(_, _)
QualifiedEnd(t, p) ==
    LET q == TypeNameEnd(t, p)
    IN  IF q = 0 THEN 0
        ELSE IF At(t, q) = ":" /\ At(t, q + 1) = ":" /\ QualifiedEnd(t, q + 2) # 0
        THEN QualifiedEnd(t, q + 2)
        ELSE q

\* TYPES_REGEX
TypesEnd(t, p) ==
    IF ~Boundary(t, p) THEN 0
    ELSE IF QualifiedEnd(t, p) # 0 THEN QualifiedEnd(t, p)
    ELSE IF At(t, p) \in Upper /\ Boundary(t, p + 1) THEN p + 1
    ELSE 0

\* ([_a-z]|[_a-z][_a-zA-Z0-9]+)\b
IdentEnd(t, p) ==
    IF At(t, p) \in Lower \cup {"_"} THEN RunEnd(t, p + 1, WordChars) ELSE 0

\* VARIABLES_REGEX
VariablesEnd(t, p) ==
    IF ~Boundary(t, p) THEN 0
    ELSE IF At(t, p) = "$" /\ Boundary(t, p + 1) THEN p + 1
    ELSE IF At(t, p) = "$" /\ IdentEnd(t, p + 1) # 0 THEN IdentEnd(t, p + 1)
    ELSE IdentEnd(t, p)

\* FUNCTION_NAME_REGEX: the name, the white space after it, and a "(" in sight.
FunctionNameEnd(t, p) ==
    LET q == RunEnd(t, p + 1, WordChars)
        w == RunEnd(t, q, Whitespace)
    IN  IF Boundary(t, p) /\ At(t, p) \in Lower \cup Upper \cup {"_"} /\ At(t, w) = "("
        THEN w ELSE 0

\* [+\-*/=<>!]+
OperatorEnd(t, p) ==
    IF At(t, p) \in OperatorChars THEN RunEnd(t, p, OperatorChars) ELSE 0

\* One character of a class.
OneOf(t, p, C) == IF At(t, p) \in C THEN p + 1 ELSE 0

\* A run of characters outside C that may be empty ([^...]* for [^...]+).
RunNotEnd_star(t, p, C) == RunEndNot(t, p, C)

\* A run of one or more characters outside C.
RunNotEnd(t, p, C) == IF RunEndNot(t, p, C) > p THEN RunEndNot(t, p, C) ELSE 0

\* The string states without their rule for escapes.
EscapeEnd_absent(t, p) == 0

\* \\. (the dot matches no newline)
EscapeEnd(t, p) ==
    IF At(t, p) = "\\" /\ p + 1 <= Len(t) /\ t[p + 1] # "\n" THEN p + 2 ELSE 0

Rule(e, k, a) == [end |-> e, kind |-> k, action |-> a]

\* tokens['root']
root(t, p) == <<
    Rule(WhitespaceEnd(t, p), "Text", "stay"),
    Rule(LineCommentEnd(t, p), "Comment.Single", "stay"),
    Rule(Literal(t, p, <<"%", "*", "*">>), "Comment.Multiline",
         "comment-multiline-double-dash"),
    Rule(Literal(t, p, <<"%", "*">>), "Comment.Multiline", "comment-multiline"),
    Rule(Literal(t, p, <<"\"">>), "String.Double", "string-double"),
    Rule(Literal(t, p, <<"'">>), "String.Single", "string-single"),
    Rule(WordListEnd(t, p, KEYWORDS), "Keyword", "stay"),
    Rule(WordListEnd(t, p, CONSTANTS_LANGUAGE), "Constant.Language", "stay"),
    Rule(NumericEnd(t, p), "Constant.Numeric", "stay"),
    Rule(TypesEnd(t, p), "Name.Class", "stay"),
    Rule(VariablesEnd(t, p), "Name.Variable", "stay"),
    Rule(FunctionNameEnd(t, p), "Name.Function", "stay"),
    Rule(OperatorEnd(t, p), "Operator", "stay"),
    Rule(OneOf(t, p, PunctuationChars), "Punctuation", "stay") >>

\* tokens['comment-multiline-double-dash']
comment_multiline_double_dash(t, p) == <<
    Rule(Literal(t, p, <<"*", "%">>), "Comment.Multiline", "#pop"),
    Rule(RunNotEnd(t, p, {"*", "%"}), "Comment.Multiline", "stay"),
    Rule(IF At(t, p) \in {"*", "/", "%"} THEN RunEnd(t, p, {"*", "/", "%"}) ELSE 0,
         "Comment.Multiline", "stay") >>

\* tokens['comment-multiline']
comment_multiline(t, p) == <<
    Rule(Literal(t, p, <<"*", "%">>), "Comment.Multiline", "#pop"),
    Rule(RunNotEnd(t, p, {"*", "%"}), "Comment.Multiline", "stay"),
    Rule(IF At(t, p) \in {"*", "/", "%"} THEN RunEnd(t, p, {"*", "/", "%"}) ELSE 0,
         "Comment.Multiline", "stay") >>

\* tokens['string-double']
string_double(t, p) == <<
    Rule(Literal(t, p, <<"\\", "'">>), "String.Escape", "stay"),
    Rule(EscapeEnd(t, p), "String.Escape", "stay"),
    Rule(RunNotEnd(t, p, {"\"", "\\"}), "String.Double", "stay"),
    Rule(Literal(t, p, <<"\"">>), "String.Double", "#pop") >>

\* tokens['string-single']
string_single(t, p) == <<
    Rule(Literal(t, p, <<"\\", "\"">>), "String.Escape", "stay"),
    Rule(EscapeEnd(t, p), "String.Escape", "stay"),
    Rule(RunNotEnd(t, p, {"'", "\\"}), "String.Single", "stay"),
    Rule(Literal(t, p, <<"'">>), "String.Single", "#pop") >>

\* The rules of a state, each tried at position p of t.
tokens(state, t, p) ==
    CASE state = "root" -> root(t, p)
      [] state = "comment-multiline-double-dash" -> comment_multiline_double_dash(t, p)
      [] state = "comment-multiline" -> comment_multiline(t, p)
      [] state = "string-double" -> string_double(t, p)
      [] state = "string-single" -> string_single(t, p)

\* The first rule of the state on top of the stack that matches at pos, 0 if none.
RECURSIVE FirstFrom(_, _)
FirstFrom(rules, i) ==
    IF i > Len(rules) THEN 0
    ELSE IF rules[i].end # 0 THEN i
    ELSE FirstFrom(rules, i + 1)

FirstMatch == FirstFrom(tokens(statestack[Len(statestack)], text, pos), 1)

\* The characters of the texts given to the lexer.
LexChars == {"\"", "\\", "\n", "%", "*", "(", "o", "f", "k", "1", "R"}

InitLex ==
    /\ InitKernel
    /\ text \in SeqsUpTo(LexChars, MaxLen)
    /\ pos = 1
    /\ statestack = <<"root">>
    /\ toks = <<>>
    /\ scanning = TRUE

\* A rule matches: its token is yielded, pos moves to the match's end, and the
\* rule's new state is pushed or the top state popped.
LexMatch ==
    /\ scanning
    /\ FirstMatch # 0
    /\ LET r == tokens(statestack[Len(statestack)], text, pos)[FirstMatch]
       IN  /\ toks' = Append(toks, <<pos, r.end, r.kind>>)
           /\ pos' = r.end
           /\ statestack' =
                 IF r.action = "stay" THEN statestack
                 ELSE IF r.action = "#pop"
                 THEN IF Len(statestack) > 1
                      THEN SubSeq(statestack, 1, Len(statestack) - 1)
                      ELSE statestack
                 ELSE Append(statestack, r.action)
    /\ UNCHANGED <<text, scanning>>

\* No rule matches: a newline resets the stack to root and is yielded as white
\* space; any other character is yielded as a one-character Error token.
LexError ==
    /\ scanning
    /\ FirstMatch = 0
    /\ pos <= Len(text)
    /\ IF text[pos] = "\n"
       THEN /\ statestack' = <<"root">>
            /\ toks' = Append(toks, <<pos, pos + 1, "Text.Whitespace">>)
       ELSE /\ statestack' = statestack
            /\ toks' = Append(toks, <<pos, pos + 1, "Error">>)
    /\ pos' = pos + 1
    /\ UNCHANGED <<text, scanning>>

\* No rule matches at the end of the text: the scan is over.
LexEnd ==
    /\ scanning
    /\ FirstMatch = 0
    /\ pos > Len(text)
    /\ scanning' = FALSE
    /\ UNCHANGED <<text, pos, statestack, toks>>

NextLex ==
    \/ LexMatch /\ UNCHANGED kvars
    \/ LexError /\ UNCHANGED kvars
    \/ LexEnd /\ UNCHANGED kvars

SpecLex == InitLex /\ [][NextLex]_vars

\* The characters of the texts with block comments: the characters of the
\* comment markers and of the comment states' rules, a letter and a newline.
CommentChars == {"%", "*", "/", "o", "\n"}

InitComment ==
    /\ InitKernel
    /\ text \in SeqsUpTo(CommentChars, MaxCommentLen)
    /\ pos = 1
    /\ statestack = <<"root">>
    /\ toks = <<>>
    /\ scanning = TRUE

SpecComment == InitComment /\ [][NextLex]_vars

----------------------------------------------------------------------------
(* The claims about the kernel, checked under Spec.                         *)

Range(q) == {q[i] : i \in DOMAIN q}
Count(q, x) == Cardinality({i \in DOMAIN q : q[i] = x})

\* do_execute has ended, by a reply or by an exception.
Ended == pc = "idle" /\ outcome.kind # "none"
\* do_execute has returned a reply.
Returned == pc = "idle" /\ outcome.kind \in {"ok", "error"}

\* C1: whenever do_execute has ended, with a reply or with an exception, the
\* process working directory is the directory it was at do_execute's entry.
\* The code sends the error message before it changes back, so this fails when
\* send_error raises inside an except clause.
C1_CwdRestored == Ended => cwd = original_cwd

\* C2: once a request's compile step is over (do_execute has ended or the
\* runtime is running), source.bsq does not exist in the scratch directory.
\* The code removes it only after subprocess.run has returned, so this fails
\* when the compiler cannot be started.
C2_SourceRemoved == pc \in {"idle", "running"} => ~srcFile

\* C3: a request with silent = false that do_execute has answered has sent a
\* status 'busy' and, after it, a status 'idle'.  The code sends 'idle' on the
\* success path only.
C3_BusyThenIdle ==
    (Returned /\ ~silent) =>
        \E i, j \in DOMAIN sent :
            i < j /\ sent[i] = StatusMsg("busy") /\ sent[j] = StatusMsg("idle")

\* The prefix and text of the error a non-zero compiler exit gives: the
\* captured standard error without the white space around it, and the fixed
\* text when nothing else is left.
Trimmed(t) ==
    CHOOSE u \in {SubSeq(t, i, j) : i \in 1..(Len(t) + 1), j \in 0..Len(t)} :
        /\ u = <<>> \/ (u[1] \notin Whitespace /\ u[Len(u)] \notin Whitespace)
        /\ \E a, b \in SeqsUpTo(Range(t) \cap Whitespace, Len(t)) : t = a \o u \o b
CompilationFailed ==
    "Compilation failed: "
    \o (IF Trimmed(stderrText) = <<>> THEN "Unknown compilation error."
        ELSE Join(Trimmed(stderrText)))

\* The compiler of this request has exited with a non-zero code, and
\* compile_bosque has removed source.bsq and come to its check of the code.
CompilerFailed ==
    "compiler_exit_nonzero" \in Range(procs) /\ "source_removed" \in Range(procs)

FilesWith(dir, ext) == {n \in Names : dir[n] = "file" /\ n[2] = ext}

\* C5: when find_main_js has run (the compiler exited with 0 and jsout exists),
\* it gave Main.mjs if that is a file; otherwise one of the .mjs files if there
\* is one, else one of the .js files if there is one; otherwise it failed and
\* the runtime was not started.  The code's glob also lists directories, so a
\* directory named like a module is taken for one.
C5_EntrySelection ==
    (pc \in {"idle", "running"} /\ "output_dir_found" \in Range(procs)) =>
        IF jsout[main_js_filename] = "file" THEN entry.name = main_js_filename
        ELSE IF FilesWith(jsout, "mjs") # {} THEN entry.name \in FilesWith(jsout, "mjs")
        ELSE IF FilesWith(jsout, "js") # {} THEN entry.name \in FilesWith(jsout, "js")
        ELSE entry = NoEntry /\ "runtime_start" \notin Range(procs)

\* C6 as stated: after do_shutdown the scratch directory does not exist, and
\* do_shutdown has not failed.  rmtree ignores the removals that fail, so what
\* could not be removed stays.
C6_ScratchRemoved == pc = "terminated" => ~tempExists /\ ~shutdownRaised

\* C6 as amended: do_shutdown never fails because of a removal error; after it,
\* every entry of the scratch directory whose removal did not fail is gone,
\* whoever created it, a directory staying only if its own removal failed or an
\* entry in it stayed; and with no failed removal the scratch directory no
\* longer exists.
C6_BestEffortRemoval ==
    pc = "terminated" =>
        /\ ~shutdownRaised
        /\ \A n \in Names : jsout[n] # "none" => n \in rmFailed.inner
        /\ srcFile => "source.bsq" \in rmFailed.top
        /\ extra => "extra" \in rmFailed.top
        /\ outDir => "jsout" \in rmFailed.top \/ rmFailed.inner # {}
        /\ tempExists => rmFailed.top # {} \/ rmFailed.inner # {}
        /\ (rmFailed.top = {} /\ rmFailed.inner = {}) => ~tempExists

\* C6's case: a shutdown, with no failed removal, after a request whose
\* compiler left its own file in the scratch directory and modules in jsout.
C6_Witness ==
    /\ pc = "terminated" /\ ~tempExists
    /\ outcome.kind = "ok" /\ entry.fresh
    /\ rmFailed = [top |-> {}, inner |-> {}]

\* C9: the compiler and the runtime never run at the same time; each is
\* started at most once per request; the runtime is started only after the
\* compiler has exited with 0, jsout was found and an entry module was located,
\* in this order; and after a failure before that the runtime was not started.
C9_Sequential ==
    /\ ~(compilerRunning /\ runtimeRunning)
    /\ Count(procs, "compiler_start") <= 1
    /\ Count(procs, "runtime_start") <= 1
    /\ compilerRunning =
          ("compiler_start" \in Range(procs)
           /\ Range(procs) \cap {"compiler_exit_0", "compiler_exit_nonzero"} = {})
    /\ runtimeRunning =
          ("runtime_start" \in Range(procs)
           /\ Range(procs) \cap {"runtime_exit_0", "runtime_exit_nonzero"} = {})
    /\ \A i \in DOMAIN procs :
          procs[i] = "runtime_start" =>
              \E a, b, c, d \in 1..(i - 1) :
                  /\ a < b /\ b < c /\ c < d
                  /\ procs[a] = "compiler_start"
                  /\ procs[b] = "compiler_exit_0"
                  /\ procs[c] = "output_dir_found"
                  /\ procs[d] = "entry_located"
                  /\ d = i - 1
    /\ "compiler_exit_nonzero" \in Range(procs) => "runtime_start" \notin Range(procs)
    /\ "output_dir_found" \notin Range(procs) => "runtime_start" \notin Range(procs)
    /\ outcome.cause \in {"chdir", "spawn", "remove", "compile", "outdir", "nomain"} =>
          "runtime_start" \notin Range(procs)
    /\ "runtime_start" \in Range(procs) => entry # NoEntry

\* C9's case: the runtime is running, after the compiler has exited.
C9_Witness ==
    /\ pc = "running" /\ runtimeRunning /\ ~compilerRunning
    /\ procs = <<"compiler_start", "compiler_exit_0", "source_removed",
                 "output_dir_found", "entry_located", "runtime_start">>

\* C10: whenever a request has returned captured output, the entry module the
\* runtime ran was written by the compiler step of that request.  The code never
\* clears jsout, so a module of an earlier request is found and run.
C10_EntryIsFresh == (Returned /\ outcome.kind = "ok") => entry.fresh

----------------------------------------------------------------------------
(* The claims about the lexer, checked under SpecLex.                       *)

\* The tokens are contiguous from the start of the text to pos, none empty.
Contiguous ==
    /\ toks = <<>> => pos = 1
    /\ toks # <<>> => toks[1][1] = 1 /\ toks[Len(toks)][2] = pos
    /\ \A i \in 1..(Len(toks) - 1) : toks[i + 1][1] = toks[i][2]
    /\ \A i \in DOMAIN toks : toks[i][1] < toks[i][2]

RECURSIVE BackslashesBefore(_, _)
BackslashesBefore(t, p) ==
    IF At(t, p - 1) = "\\" THEN 1 + BackslashesBefore(t, p - 1) ELSE 0

\* A double quote, then text with no closing unescaped double quote: every
\* later double quote has an odd number of backslashes right before it.
Unterminated(t) ==
    /\ At(t, 1) = "\""
    /\ \A p \in 2..Len(t) : t[p] = "\"" => BackslashesBefore(t, p) % 2 = 1

StringKinds == {"String.Double", "String.Single", "String.Escape"}

OpenerEnd(t) ==
    IF At(t, 1) = "%" /\ At(t, 2) = "*"
    THEN IF At(t, 3) = "*" THEN 4 ELSE 3
    ELSE 0

\* The places after the opener where the close marker *% stands, and the
\* first of them, 0 when there is none.
CloseMarkers(t) ==
    {c \in OpenerEnd(t)..(Len(t) - 1) : t[c] = "*" /\ t[c + 1] = "%"}
FirstClose(t) ==
    IF CloseMarkers(t) = {} THEN 0
    ELSE CHOOSE c \in CloseMarkers(t) : \A d \in CloseMarkers(t) : c <= d

\* C11: in the scan of a text that starts with a block-comment opener, the
\* tokens up to the end of the first close marker *% after the opener are
\* Comment tokens, none of them goes past that marker, and from the marker's
\* end the scan is in the root state again; when no close marker follows the
\* opener, every token is a Comment token and the scan ends at the end of the
\* text.  The comment states' rule [*/%]+ takes a '*' that another '*', a '/'
\* or a '%' follows together with what follows it, so it takes the marker of
\* "**%" or "%*%" as comment text and the comment is not closed.
C11_CommentEndsAtFirstClose ==
    OpenerEnd(text) # 0 =>
        LET c == FirstClose(text)
            e == IF c = 0 THEN Len(text) + 1 ELSE c + 2
        IN  /\ \A i \in DOMAIN toks :
                  toks[i][1] < e =>
                      toks[i][3] = "Comment.Multiline" /\ toks[i][2] <= e
            /\ (c # 0 /\ pos >= e) =>
                  \E i \in DOMAIN toks : toks[i][2] = e
            /\ (c # 0 /\ pos = e) => statestack = <<"root">>
            /\ ~scanning => pos = Len(text) + 1

====
